---------------------------- MODULE Spec2Model ----------------------------
(***************************************************************************)
(* State-machine model of todoServer.js: an express server that keeps a    *)
(* todo list in the file todos.json.  Every route handler is an async      *)
(* function; the model has one step per stretch of code that runs between  *)
(* two awaits (node runs such a stretch without interruption), so that     *)
(* the reads and writes of todos.json by overlapping requests interleave   *)
(* exactly where the event loop lets them.  A readFile and a writeFile of  *)
(* todos.json each take effect at one instant; they succeed in Spec and    *)
(* SeqSpec and can fail in FailSpec and FairSpec.                          *)
(***************************************************************************)
EXTENDS Integers, Sequences, FiniteSets, TLC

VARIABLES file,     \* parsed content of todos.json: a sequence of objects
          req,      \* per connection: the request being served, its handler's locals
          nextId,   \* number of the next value uuidv4() returns
          nreq,     \* number of requests received so far
          res,      \* the response sent last, until the next request arrives
          prev      \* the last write request that was answered with 2xx

vars == <<file, req, nextId, nreq, res, prev>>

(***************************************************************************)
(* Bounds of the model.                                                    *)
(***************************************************************************)
MaxIds == 2          \* values drawn from uuidv4() in one run
MaxReqs == 2         \* requests received in one run

\* The connections: at most two requests are served at the same time.
Procs == {1, 2}

(***************************************************************************)
(* JavaScript values.  A value carries its type, so that the string "true" *)
(* and the boolean true are different values, as they are in JSON.         *)
(***************************************************************************)
JStr(s) == [type |-> "string", val |-> s]
JBool(b) == [type |-> "boolean", val |-> IF b THEN "true" ELSE "false"]
JNum(s) == [type |-> "number", val |-> s]
Undefined == [type |-> "undefined", val |-> ""]

\* An object is a function from the keys it has to values.
EmptyObj == [k \in {} |-> Undefined]
Obj1(k, v) == [x \in {k} |-> v]

\* { ...a, ...b }
Spread(a, b) ==
  [k \in DOMAIN a \cup DOMAIN b |-> IF k \in DOMAIN b THEN b[k] ELSE a[k]]

\* o.k, undefined when o has no such key
Get(o, k) == IF k \in DOMAIN o THEN o[k] ELSE Undefined


\* null, as findById returns it when no todo has the id
Null == [type |-> "null", val |-> ""]

(***************************************************************************)
(* Arrays: a JavaScript array is a sequence; JavaScript counts positions   *)
(* from 0.                                                                 *)
(***************************************************************************)
Min(a, b) == IF a < b THEN a ELSE b
Max(a, b) == IF a > b THEN a ELSE b

\* Faulty variant of FilterById: !== for ===
FilterByIdNot(todos, id) == SelectSeq(todos, LAMBDA todo : Get(todo, "id") # id)

\* todos.filter((todo) => todo.id === id)
FilterById(todos, id) == SelectSeq(todos, LAMBDA todo : Get(todo, "id") = id)

\* todos.findIndex((todo) => todo.id === todoId): first position, or -1
FindIndex(todos, todoId) ==
  IF \E i \in 1..Len(todos) : Get(todos[i], "id") = todoId
  THEN (CHOOSE i \in 1..Len(todos) :
          /\ Get(todos[i], "id") = todoId
          /\ \A j \in 1..(i - 1) : Get(todos[j], "id") # todoId) - 1
  ELSE -1

\* todos.splice(start, deleteCount, ...items): the array afterwards
Splice(todos, start, deleteCount, items) ==
  LET len == Len(todos)
      actualStart == IF start < 0 THEN Max(len + start, 0) ELSE Min(start, len)
      actualDelete == Min(Max(deleteCount, 0), len - actualStart)
  IN SubSeq(todos, 1, actualStart) \o items
       \o SubSeq(todos, actualStart + actualDelete + 1, len)

\* Faulty variant of Push: todos.unshift(data) puts the todo first
PushFront(todos, data) == <<data>> \o todos

\* Faulty variant of Push: the push is left out
PushNothing(todos, data) == todos

\* todos.push(data): the array afterwards
Push(todos, data) == Append(todos, data)

(***************************************************************************)
(* Joi.  schema.validate(body) runs with the default options: conversion   *)
(* is on (a boolean key accepts the strings "true" and "false"), unknown   *)
(* keys are not allowed, and the first error ends the validation.  A       *)
(* string key rejects the empty string.                                    *)
(***************************************************************************)
NoError == [key |-> "", type |-> ""]

JoiString(required) == [type |-> "string", required |-> required,
                        hasDefault |-> FALSE, default |-> Undefined]
JoiBoolean(hasDefault, default) == [type |-> "boolean", required |-> FALSE,
                                    hasDefault |-> hasDefault, default |-> default]

todoSchema ==
  [order |-> <<"title", "completed", "description">>,
   keys |-> [title |-> JoiString(TRUE),
             completed |-> JoiBoolean(TRUE, JBool(FALSE)),
             description |-> JoiString(TRUE)]]

\* Variant of updateTodoSchema: a schema that also describes a key priority
updateTodoSchemaWithPriority ==
  [order |-> <<"title", "completed", "description", "priority">>,
   keys |-> [title |-> JoiString(FALSE),
             completed |-> JoiBoolean(FALSE, Undefined),
             description |-> JoiString(FALSE),
             priority |-> JoiString(FALSE)]]

updateTodoSchema ==
  [order |-> <<"title", "completed", "description">>,
   keys |-> [title |-> JoiString(FALSE),
             completed |-> JoiBoolean(FALSE, Undefined),
             description |-> JoiString(FALSE)]]

\* Faulty variant of KeyError: a string key lets the empty string pass
\* (Joi.string().allow(''))
KeyErrorAllowEmpty(rule, body, k) ==
  IF k \notin DOMAIN body
  THEN IF rule.required THEN "any.required" ELSE ""
  ELSE IF rule.type = "string"
       THEN IF body[k].type # "string" THEN "string.base" ELSE ""
       ELSE IF \/ body[k].type = "boolean"
               \/ body[k].type = "string" /\ body[k].val \in {"true", "false"}
            THEN "" ELSE "boolean.base"

\* The error type of key k of body under rule, "" when the key passes.
KeyError(rule, body, k) ==
  IF k \notin DOMAIN body
  THEN IF rule.required THEN "any.required" ELSE ""
  ELSE IF rule.type = "string"
       THEN IF body[k].type # "string" THEN "string.base"
            ELSE IF body[k].val = "" THEN "string.empty" ELSE ""
       ELSE IF \/ body[k].type = "boolean"
               \/ body[k].type = "string" /\ body[k].val \in {"true", "false"}
            THEN "" ELSE "boolean.base"

\* Variant of AllowUnknown: the schemas allow unknown keys: Joi.object({...}).unknown()
AllowUnknownKeys(schema) == TRUE

\* Whether an object schema lets a key it does not describe pass
\* (Joi.object(): no; it takes .unknown() to allow them).
AllowUnknown(schema) == FALSE

\* error.details[0] of schema.validate(body), NoError when there is none.
JoiError(schema, body) ==
  LET bad == {i \in 1..Len(schema.order) :
                KeyError(schema.keys[schema.order[i]], body, schema.order[i]) # ""}
      unknown == DOMAIN body \ DOMAIN schema.keys
  IN IF bad # {}
     THEN LET i == CHOOSE i \in bad : \A j \in bad : i <= j
          IN [key |-> schema.order[i],
              type |-> KeyError(schema.keys[schema.order[i]], body, schema.order[i])]
     ELSE IF unknown # {} /\ ~AllowUnknown(schema)
          THEN [key |-> CHOOSE k \in unknown : TRUE, type |-> "object.unknown"]
          ELSE NoError

(***************************************************************************)
(* Inputs.  uuidv4() is taken to return a value it never returned before   *)
(* (the n-th call returns Uuid(n)).  A body is any object over the valid titles,   *)
(* descriptions and booleans, or a complete body with one more key, or with  *)
(* one key set to a value of another kind.                                 *)
(***************************************************************************)
UuidNames == <<"u1", "u2", "u3", "u4">>
Uuid(n) == JStr(UuidNames[n])

\* todos.json as an earlier run of the server may have left it: the empty
\* array, or one or two todos whose ids uuidv4() returned in that run (the
\* second was created without completed).
Seed1 == [id |-> JStr("s1"), title |-> JStr("a"), description |-> JStr("x"),
          completed |-> JBool(FALSE)]
Seed2 == [id |-> JStr("s2"), title |-> JStr("b"), description |-> JStr("x")]
InitialFiles == {<<>>, <<Seed1>>, <<Seed1, Seed2>>}

\* The ids of requests: those of the todos of this and the earlier run; an
\* id is unknown as long as no todo has it
PathIds == {Uuid(n) : n \in 1..MaxIds} \cup {Get(Seed1, "id"), Get(Seed2, "id")}

\* The object with the keys of m whose value is not undefined.
MkObj(m) == [k \in {x \in DOMAIN m : m[x] # Undefined} |-> m[k]]

Titles == {JStr("a"), JStr("b")}
Descriptions == {JStr("x")}
Booleans == {JBool(TRUE), JBool(FALSE)}

CoreBodies ==
  {MkObj([title |-> t, description |-> d, completed |-> c]) :
     t \in Titles \cup {Undefined}, d \in Descriptions \cup {Undefined},
     c \in Booleans \cup {Undefined}}

OddKeys ==
  {Obj1("title", JStr("")), Obj1("title", JNum("7")),
   Obj1("description", JStr("")), Obj1("description", JNum("7")),
   Obj1("completed", JStr("true")), Obj1("completed", JNum("7")),
   Obj1("id", Uuid(1)), Obj1("id", JStr("zz")), Obj1("priority", JStr("high"))}

Bodies ==
  CoreBodies \cup
  {Spread([title |-> JStr("a"), description |-> JStr("x")], o) : o \in OddKeys}

\* The bodies that overlapping requests carry: a complete body, a complete
\* body with completed, two partial bodies and a body that names an id.
RaceBodies ==
  {[title |-> JStr("a"), description |-> JStr("x")],
   [title |-> JStr("b"), description |-> JStr("x"), completed |-> JBool(TRUE)],
   [completed |-> JBool(TRUE)],
   [title |-> JStr("b")],
   [title |-> JStr("a"), description |-> JStr("x"), id |-> JStr("zz")]}

(***************************************************************************)
(* The state of a connection.  pc names the await the handler is suspended *)
(* at; data is save's data and updateByIdAndUpdate's update; todos is the  *)
(* array the store function holds.                                         *)
(***************************************************************************)
Idle == [pc |-> "idle", kind |-> "", id |-> Undefined, body |-> EmptyObj,
         data |-> EmptyObj, todos |-> <<>>]

\* No response yet; otherwise a response names the request it answers (its
\* route, path id and body) and carries a status, and a body (out, or list
\* when the body is an array).
NoRes == [kind |-> "", id |-> Undefined, body |-> EmptyObj, status |-> 0,
          out |-> Null, list |-> <<>>]
NoPrev == [kind |-> "", id |-> Undefined, body |-> EmptyObj]

\* A response: res.status(s).json(out), res.send(out), res.sendStatus(s).
Response(r, status, out, list) ==
  [kind |-> r.kind, id |-> r.id, body |-> r.body, status |-> status,
   out |-> out, list |-> list]

InFlight(p) == req[p].pc # "idle"

Init ==
  /\ file \in InitialFiles
  /\ req = [p \in Procs |-> Idle]
  /\ nextId = 1
  /\ nreq = 0
  /\ res = NoRes
  /\ prev = NoPrev

\* A request arrives on connection p, the first free one (connections are
\* interchangeable).
Arrive(p) ==
  /\ ~InFlight(p)
  /\ \A q \in Procs : q < p => InFlight(q)
  /\ nreq < MaxReqs
  /\ nreq' = nreq + 1

(***************************************************************************)
(* todos.json holds JSON.stringify(todos); file is that document.  A key   *)
(* whose value is undefined is not written; strings, numbers and booleans  *)
(* are written as they are, and JSON.parse gives them back.                *)
(***************************************************************************)
JSONstringify(todos) ==
  [i \in 1..Len(todos) |->
     [k \in {x \in DOMAIN todos[i] : todos[i][x] # Undefined} |-> todos[i][k]]]

JSONparse(document) == document

\* Variant of writeFile: a write that keeps the todos of the file that the
\* array written has no todo for
writeFileKeeping(todos) ==
  JSONstringify(todos \o SelectSeq(file, LAMBDA t :
                  \A i \in 1..Len(todos) : Get(todos[i], "id") # Get(t, "id")))

\* fs.writeFile(__dirname + '/todos.json', JSON.stringify(todos)): the file
\* afterwards
writeFile(todos) == JSONstringify(todos)

(***************************************************************************)
(* find, findById (lines 54-65): one read of todos.json.                   *)
(***************************************************************************)
find == JSONparse(file)

findById(id) ==
  LET todos == find
  IN IF FilterById(todos, id) = <<>> THEN Null ELSE FilterById(todos, id)[1]

(***************************************************************************)
(* validateBody (lines 138-146): only the error of schema.validate is      *)
(* looked at; req.body stays as it was sent.                               *)
(***************************************************************************)
\* Faulty variant of validateBody: next() is called whatever the body is
validateNothing(schema, body) == NoError

validateBody(schema, body) == JoiError(schema, body)

(***************************************************************************)
(* GET /todos                                                              *)
(***************************************************************************)
getAllTodos(p) ==
  /\ Arrive(p)
  /\ req' = [req EXCEPT ![p] = [Idle EXCEPT !.pc = "getAll_find", !.kind = "GET_ALL"]]
  /\ res' = NoRes
  /\ UNCHANGED <<file, nextId, prev>>

getAllTodos_send(p) ==
  /\ req[p].pc = "getAll_find"
  /\ res' = Response(req[p], 200, Null, find)
  /\ req' = [req EXCEPT ![p] = Idle]
  /\ UNCHANGED <<file, nextId, nreq, prev>>

(***************************************************************************)
(* GET /todos/:id                                                          *)
(***************************************************************************)
getTodoById(p, id) ==
  /\ Arrive(p)
  /\ req' = [req EXCEPT ![p] = [Idle EXCEPT !.pc = "get_findById",
                                            !.kind = "GET", !.id = id]]
  /\ res' = NoRes
  /\ UNCHANGED <<file, nextId, prev>>

getTodoById_send(p) ==
  /\ req[p].pc = "get_findById"
  /\ LET todo == findById(req[p].id)
     IN res' = IF todo # Null THEN Response(req[p], 200, todo, <<>>)
               ELSE Response(req[p], 404, Null, <<>>)
  /\ req' = [req EXCEPT ![p] = Idle]
  /\ UNCHANGED <<file, nextId, nreq, prev>>

(***************************************************************************)
(* POST /todos: validateBody(todoSchema), createTodo, save.                *)
(***************************************************************************)
\* What the 400 response carries: { error: error.details[0].message }
ErrorBody(error) == [error |-> error]

\* { id: uuidv4(), ...todo }
NewTodo(id, todo) == Spread(Obj1("id", id), todo)

createTodo(p, body) ==
  /\ Arrive(p)
  /\ LET error == validateBody(todoSchema, body)
     IN IF error # NoError
        THEN /\ res' = [kind |-> "POST", id |-> Undefined, body |-> body,
                        status |-> 400, out |-> ErrorBody(error), list |-> <<>>]
             /\ UNCHANGED <<req, nextId>>
        ELSE /\ nextId <= MaxIds
             /\ req' = [req EXCEPT ![p] =
                          [Idle EXCEPT !.pc = "save_find", !.kind = "POST",
                                       !.body = body,
                                       !.data = NewTodo(Uuid(nextId), body)]]
             /\ nextId' = nextId + 1
             /\ res' = NoRes
  /\ UNCHANGED <<file, prev>>

\* save, from the read of the file to the call of writeFile
save_push(p) ==
  /\ req[p].pc = "save_find"
  /\ req' = [req EXCEPT ![p].pc = "save_write",
                        ![p].todos = Push(find, req[p].data)]
  /\ UNCHANGED <<file, nextId, nreq, res, prev>>

\* what createTodo answers with: res.status(201).json({ ...newTodo })
createTodo_json(newTodo) == newTodo

\* the write is done: save resolves with data, createTodo answers
save_done(p) ==
  /\ req[p].pc = "save_write"
  /\ file' = writeFile(req[p].todos)
  /\ res' = Response(req[p], 201, createTodo_json(req[p].data), <<>>)
  /\ prev' = [kind |-> "POST", id |-> Get(req[p].data, "id"), body |-> req[p].body]
  /\ req' = [req EXCEPT ![p] = Idle]
  /\ UNCHANGED <<nextId, nreq>>

(***************************************************************************)
(* PUT /todos/:id: validateBody(updateTodoSchema), updateTodo,             *)
(* updateByIdAndUpdate.                                                    *)
(***************************************************************************)
updateTodo(p, id, body) ==
  /\ Arrive(p)
  /\ LET error == validateBody(updateTodoSchema, body)
     IN IF error # NoError
        THEN /\ res' = [kind |-> "PUT", id |-> id, body |-> body,
                        status |-> 400, out |-> ErrorBody(error), list |-> <<>>]
             /\ UNCHANGED req
        ELSE /\ req' = [req EXCEPT ![p] =
                          [Idle EXCEPT !.pc = "update_findById", !.kind = "PUT",
                                       !.id = id, !.body = body]]
             /\ res' = NoRes
  /\ UNCHANGED <<file, nextId, prev>>

\* Faulty variant of Merge: the update replaces the todo, keeping its id only
MergeReplace(todo, update) == Spread(Obj1("id", Get(todo, "id")), update)

\* update = { ...todo, ...update }
Merge(todo, update) == Spread(todo, update)

\* updateByIdAndUpdate, from the first read to the second read; when there
\* is no todo it throws, updateTodo catches and answers 404
update_findById(p) ==
  /\ req[p].pc = "update_findById"
  /\ LET todo == findById(req[p].id)
     IN IF todo # Null
        THEN /\ req' = [req EXCEPT ![p].pc = "update_find",
                                   ![p].data = Merge(todo, req[p].body)]
             /\ UNCHANGED res
        ELSE /\ res' = Response(req[p], 404, Null, <<>>)
             /\ req' = [req EXCEPT ![p] = Idle]
  /\ UNCHANGED <<file, nextId, nreq, prev>>

\* Faulty variant of SpliceUpdate: todos.splice(updateIndex, 0, update)
\* inserts and removes nothing
SpliceUpdateInsert(todos, todoId, update) ==
  Splice(todos, FindIndex(todos, todoId), 0, <<update>>)

\* todos.splice(updateIndex, 1, update)
SpliceUpdate(todos, todoId, update) ==
  Splice(todos, FindIndex(todos, todoId), 1, <<update>>)

\* updateByIdAndUpdate, from the second read to the call of writeFile
update_splice(p) ==
  /\ req[p].pc = "update_find"
  /\ req' = [req EXCEPT ![p].pc = "update_write",
                        ![p].todos = SpliceUpdate(find, req[p].id, req[p].data)]
  /\ UNCHANGED <<file, nextId, nreq, res, prev>>

\* what updateTodo answers with: res.status(200).json({ id: updatedTodo.id })
updateTodo_json(updatedTodo) == MkObj([id |-> Get(updatedTodo, "id")])

\* the write is done: updateByIdAndUpdate resolves with update, updateTodo answers
update_done(p) ==
  /\ req[p].pc = "update_write"
  /\ file' = writeFile(req[p].todos)
  /\ res' = Response(req[p], 200, updateTodo_json(req[p].data), <<>>)
  /\ prev' = [kind |-> "PUT", id |-> req[p].id, body |-> EmptyObj]
  /\ req' = [req EXCEPT ![p] = Idle]
  /\ UNCHANGED <<nextId, nreq>>

(***************************************************************************)
(* DELETE /todos/:id: deleteTodo, deleteById.                              *)
(***************************************************************************)
deleteTodo(p, id) ==
  /\ Arrive(p)
  /\ req' = [req EXCEPT ![p] = [Idle EXCEPT !.pc = "delete_findById",
                                            !.kind = "DELETE", !.id = id]]
  /\ res' = NoRes
  /\ UNCHANGED <<file, nextId, prev>>

\* deleteById, from the first read to the second read; when there is no
\* todo it throws, deleteTodo catches and answers 404
delete_findById(p) ==
  /\ req[p].pc = "delete_findById"
  /\ LET todo == findById(req[p].id)
     IN IF todo # Null
        THEN /\ req' = [req EXCEPT ![p].pc = "delete_find"]
             /\ UNCHANGED res
        ELSE /\ res' = Response(req[p], 404, Null, <<>>)
             /\ req' = [req EXCEPT ![p] = Idle]
  /\ UNCHANGED <<file, nextId, nreq, prev>>

\* Faulty variant of SpliceDelete: todos.splice(deleteIndex) removes
\* everything from deleteIndex on
SpliceDeleteRest(todos, todoId) ==
  Splice(todos, FindIndex(todos, todoId), Len(todos), <<>>)

\* todos.splice(deleteIndex, 1)
SpliceDelete(todos, todoId) == Splice(todos, FindIndex(todos, todoId), 1, <<>>)

\* deleteById, from the second read to the call of writeFile
delete_splice(p) ==
  /\ req[p].pc = "delete_find"
  /\ req' = [req EXCEPT ![p].pc = "delete_write",
                        ![p].todos = SpliceDelete(find, req[p].id)]
  /\ UNCHANGED <<file, nextId, nreq, res, prev>>

\* the write is done: deleteById resolves, deleteTodo answers res.sendStatus(200)
delete_done(p) ==
  /\ req[p].pc = "delete_write"
  /\ file' = writeFile(req[p].todos)
  /\ res' = Response(req[p], 200, Null, <<>>)
  /\ prev' = [kind |-> "DELETE", id |-> req[p].id, body |-> EmptyObj]
  /\ req' = [req EXCEPT ![p] = Idle]
  /\ UNCHANGED <<nextId, nreq>>

(***************************************************************************)
(* The server: requests arrive on any free connection at any time, and     *)
(* every suspended handler may be the next one the event loop resumes.     *)
(***************************************************************************)
Resume(p) ==
  \/ getAllTodos_send(p)
  \/ getTodoById_send(p)
  \/ save_push(p)
  \/ save_done(p)
  \/ update_findById(p)
  \/ update_splice(p)
  \/ update_done(p)
  \/ delete_findById(p)
  \/ delete_splice(p)
  \/ delete_done(p)

Receive(p) ==
  \/ getAllTodos(p)
  \/ \E id \in PathIds : getTodoById(p, id)
  \/ \E body \in RaceBodies : createTodo(p, body)
  \/ \E id \in PathIds, body \in RaceBodies : updateTodo(p, id, body)
  \/ \E id \in PathIds : deleteTodo(p, id)

Next == \E p \in Procs : Receive(p) \/ Resume(p)

Spec == Init /\ [][Next]_vars

(***************************************************************************)
(* The same server under a client that sends a request only when every     *)
(* earlier one has been answered: no two requests overlap.                 *)
(***************************************************************************)
Quiet == \A p \in Procs : ~InFlight(p)

SeqReceive(p) ==
  \/ Quiet /\ getAllTodos(p)
  \/ Quiet /\ \E id \in PathIds : getTodoById(p, id)
  \/ Quiet /\ \E body \in Bodies : createTodo(p, body)
  \/ Quiet /\ \E id \in PathIds, body \in Bodies : updateTodo(p, id, body)
  \/ Quiet /\ \E id \in PathIds : deleteTodo(p, id)

SeqNext == \E p \in Procs : SeqReceive(p) \/ Resume(p)

SeqSpec == Init /\ [][SeqNext]_vars

(***************************************************************************)
(* The server over a file system that can fail.  fs.readFile can reject    *)
(* (the file is missing or unreadable) and JSON.parse can throw (the file  *)
(* is no JSON document): find rejects in both cases (lines 56-58).         *)
(* fs.writeFile can reject, and save, updateByIdAndUpdate and deleteById   *)
(* then reject (lines 75, 95, 116); a write that fails is taken to leave   *)
(* the file as it was.  The rejection travels up the awaits to the route   *)
(* handler.                                                                *)
(***************************************************************************)
ReadPcs == {"getAll_find", "get_findById", "save_find",
            "update_findById", "update_find", "delete_findById", "delete_find"}
WritePcs == {"save_write", "update_write", "delete_write"}

\* updateTodo and deleteTodo await the store inside try { } catch (err)
\* { res.sendStatus(404) } (lines 176-181, 187-192): every rejection, of
\* whatever cause, is answered 404.
catch_sendStatus(p) ==
  /\ res' = Response(req[p], 404, Null, <<>>)
  /\ req' = [req EXCEPT ![p] = Idle]

\* getAllTodos, getTodoById and createTodo await the store with no try
\* (lines 150, 156, 167): the promise of the handler rejects and the code
\* has nothing that handles it.  What follows is up to the express the
\* server runs on: express 5 passes the rejection to its error handler,
\* which answers 500; express 4 ignores the promise, and the request is
\* never answered.
unhandledRejection(p) ==
  \/ /\ res' = Response(req[p], 500, Null, <<>>)
     /\ req' = [req EXCEPT ![p] = Idle]
  \/ /\ req' = [req EXCEPT ![p] = [Idle EXCEPT !.pc = "unhandled",
                                                !.kind = req[p].kind]]
     /\ UNCHANGED res

\* Whether the handler of a route awaits the store inside a try/catch
Caught(kind) == kind \in {"PUT", "DELETE"}

\* a read of todos.json that connection p awaits fails
find_rejects(p) ==
  /\ req[p].pc \in ReadPcs
  /\ IF Caught(req[p].kind) THEN catch_sendStatus(p) ELSE unhandledRejection(p)
  /\ UNCHANGED <<file, nextId, nreq, prev>>

\* a write of todos.json that connection p awaits fails
writeFile_rejects(p) ==
  /\ req[p].pc \in WritePcs
  /\ IF Caught(req[p].kind) THEN catch_sendStatus(p) ELSE unhandledRejection(p)
  /\ UNCHANGED <<file, nextId, nreq, prev>>

FailNext ==
  \E p \in Procs :
    Receive(p) \/ Resume(p) \/ find_rejects(p) \/ writeFile_rejects(p)

FailSpec == Init /\ [][FailNext]_vars

\* Every read and every write of todos.json that a handler awaits finishes
\* at some time, with success or with failure, and node then resumes the
\* handler.
FairSpec ==
  FailSpec /\ \A p \in Procs :
               WF_vars(Resume(p) \/ find_rejects(p) \/ writeFile_rejects(p))

(***************************************************************************)
(* Vocabulary of the properties.                                           *)
(***************************************************************************)
Ids(todos) == {Get(todos[i], "id") : i \in 1..Len(todos)}

\* The ids uuidv4() has returned, in this run or in the run that left the
\* initial file.
GeneratedIds ==
  {Get(Seed1, "id"), Get(Seed2, "id")} \cup {Uuid(n) : n \in 1..(nextId - 1)}

NonEmptyString(v) == v.type = "string" /\ v.val # ""

\* A create payload as the data model describes it: a non-empty string title,
\* a non-empty string description, and completed, when present, a boolean.
ValidCreatePayload(b) ==
  /\ DOMAIN b \subseteq {"title", "description", "completed"}
  /\ NonEmptyString(Get(b, "title"))
  /\ NonEmptyString(Get(b, "description"))
  /\ "completed" \in DOMAIN b => b["completed"].type = "boolean"

\* A create payload that breaks the create schema in one of the ways named:
\* title or description missing, empty or no string, completed no boolean.
ViolatesCreateSchema(b) ==
  \/ ~NonEmptyString(Get(b, "title"))
  \/ ~NonEmptyString(Get(b, "description"))
  \/ "completed" \in DOMAIN b /\ b["completed"].type # "boolean"

\* Connection p is answered in this step.
Answered(p) == req[p].pc # "idle" /\ req'[p].pc = "idle"

(***************************************************************************)
(* C1.  Create/get round trip: a POST /todos with a valid payload is       *)
(* answered 201 with an id, and a GET /todos/{id} that follows it, with no *)
(* write in between, is answered 200 with a todo that has this id and the  *)
(* title, description and completed of the payload.                        *)
(***************************************************************************)
C1_CreateGetRoundTrip ==
  /\ (res.kind = "POST" /\ ValidCreatePayload(res.body)) =>
       /\ res.status = 201
       /\ Get(res.out, "id") \in GeneratedIds
       /\ prev.kind = "POST" /\ prev.id = Get(res.out, "id")
  /\ (res.kind = "GET" /\ prev.kind = "POST" /\ res.id = prev.id
        /\ ValidCreatePayload(prev.body)) =>
       /\ res.status = 200
       /\ Get(res.out, "id") = prev.id
       /\ \A k \in DOMAIN prev.body : Get(res.out, k) = prev.body[k]

C1_Witness ==
  /\ res.kind = "GET" /\ res.status = 200
  /\ prev.kind = "POST" /\ res.id = prev.id
  /\ ValidCreatePayload(prev.body) /\ "completed" \in DOMAIN prev.body

(***************************************************************************)
(* C2.  Default on create: after a POST /todos with a valid payload that   *)
(* has no completed, the todo that is persisted has completed = false.     *)
(***************************************************************************)
C2_DefaultCompletedFalse ==
  (prev.kind = "POST" /\ ValidCreatePayload(prev.body)
     /\ "completed" \notin DOMAIN prev.body) =>
    \A i \in 1..Len(file) :
      Get(file[i], "id") = prev.id => Get(file[i], "completed") = JBool(FALSE)

(***************************************************************************)
(* C3.  Id uniqueness: no two todos of the persisted collection have the   *)
(* same id, whatever the interleaving of creates, updates and deletes.     *)
(***************************************************************************)
C3_UniqueIds ==
  \A i, j \in 1..Len(file) : Get(file[i], "id") = Get(file[j], "id") => i = j

\* an update and a delete of the same todo, both about to write
C3_Witness ==
  /\ Len(file) >= 2
  /\ \E p, q \in Procs :
       /\ req[p].pc = "update_write" /\ req[q].pc = "delete_write"
       /\ req[p].id = req[q].id

(***************************************************************************)
(* C4.  Ids are assigned by the store and never change: a POST or PUT      *)
(* whose body has an id is answered 400, and every persisted todo, and     *)
(* every todo about to be written, has an id that uuidv4() returned; a PUT *)
(* writes its todo under the id of the path.                               *)
(***************************************************************************)
C4_IdsStoreAssigned ==
  /\ (res.kind \in {"POST", "PUT"} /\ "id" \in DOMAIN res.body) => res.status = 400
  /\ Ids(file) \subseteq GeneratedIds
  /\ \A p \in Procs :
       /\ req[p].pc \in {"save_find", "save_write"} =>
            Get(req[p].data, "id") \in GeneratedIds
       /\ req[p].pc \in {"update_find", "update_write"} =>
            Get(req[p].data, "id") = req[p].id

C4_Witness ==
  /\ res.kind = "PUT" /\ "id" \in DOMAIN res.body /\ res.status = 400
  /\ res.id \in Ids(file)

(***************************************************************************)
(* C5.  Update is a partial merge with a frame: when no request overlaps,  *)
(* the write of a PUT /todos/{id} changes, in the todo with this id, the   *)
(* keys of the body to the values of the body and nothing else, and leaves *)
(* every other todo as it was.                                             *)
(***************************************************************************)
UpdateFrame(old, new, id, body) ==
  /\ Len(new) = Len(old)
  /\ \A i \in 1..Len(old) :
       IF Get(old[i], "id") = id
       THEN /\ DOMAIN new[i] = DOMAIN old[i] \cup DOMAIN body
            /\ \A k \in DOMAIN body : new[i][k] = body[k]
            /\ \A k \in DOMAIN old[i] \ DOMAIN body : new[i][k] = old[i][k]
       ELSE new[i] = old[i]

C5_UpdateMergesWithFrame ==
  [][\A p \in Procs :
       (req[p].kind = "PUT" /\ req[p].pc = "update_write" /\ Answered(p)) =>
         /\ req[p].id \in Ids(file)
         /\ UpdateFrame(file, file', req[p].id, req[p].body)]_vars

C5_Witness ==
  /\ res.kind = "PUT" /\ res.status = 200
  /\ DOMAIN res.body = {"completed"}
  /\ Len(file) = 2
  /\ \E i \in 1..Len(file) :
       /\ Get(file[i], "id") = res.id
       /\ Get(file[i], "completed") = res.body["completed"]
       /\ Get(file[i], "title") # Undefined

(***************************************************************************)
(* C6.  Delete then get: when no request overlaps, the write of a          *)
(* DELETE /todos/{id} that is answered 200 removes the todo with this id   *)
(* and leaves every other todo as it was; a GET /todos/{id} that follows   *)
(* is answered 404 and a GET /todos that follows lists no such todo.       *)
(***************************************************************************)
C6_DeleteThenGet ==
  [][/\ \A p \in Procs :
          (req[p].kind = "DELETE" /\ req[p].pc = "delete_write" /\ Answered(p)) =>
            /\ res'.status = 200
            /\ req[p].id \in Ids(file)
            /\ file' = SelectSeq(file, LAMBDA t : Get(t, "id") # req[p].id)
     /\ (prev'.kind = "DELETE" /\ res'.kind = "GET" /\ res'.id = prev'.id) =>
          res'.status = 404
     /\ (prev'.kind = "DELETE" /\ res'.kind = "GET_ALL") =>
          /\ prev'.id \notin Ids(res'.list)
          /\ res'.list = file']_vars

C6_Witness ==
  /\ prev.kind = "DELETE" /\ res.kind = "GET" /\ res.id = prev.id
  /\ res.status = 404
  /\ Len(file) >= 1

(***************************************************************************)
(* C7.  Invalid create is rejected without effect: a POST /todos whose     *)
(* body breaks the create schema (title or description missing, empty or   *)
(* no string; completed no boolean) is answered 400 with an error message  *)
(* and leaves the persisted collection as it was.                          *)
(***************************************************************************)
C7_InvalidCreateRejected ==
  [][\A p \in Procs : \A body \in Bodies :
       (createTodo(p, body) /\ ViolatesCreateSchema(body)) =>
         /\ res'.status = 400
         /\ "error" \in DOMAIN res'.out
         /\ file' = file
         /\ req' = req]_vars

(***************************************************************************)
(* C8.  Not-found leaves the store untouched: when no request overlaps and *)
(* no todo has the id, GET, PUT (with a valid body) and DELETE of          *)
(* /todos/{id} are answered 404 at their first read, and the persisted     *)
(* collection is unchanged.                                                *)
(***************************************************************************)
C8_NotFoundUntouched ==
  [][\A p \in Procs :
       (/\ req[p].pc \in {"get_findById", "update_findById", "delete_findById"}
        /\ req[p].id \notin Ids(file)
        /\ req'[p] # req[p]) =>
         /\ Answered(p)
         /\ res'.status = 404 /\ res'.kind = req[p].kind /\ res'.id = req[p].id
         /\ file' = file]_vars

C8_Witness ==
  /\ res.kind = "PUT" /\ res.status = 404
  /\ res.id \notin Ids(file)
  /\ Len(file) >= 1

(***************************************************************************)
(* C9.  Shape of the write responses: a POST /todos that succeeds is       *)
(* answered 201 with exactly {id}, and a PUT /todos/{id} that succeeds is  *)
(* answered 200 with exactly {id}.                                         *)
(***************************************************************************)
C9_WriteResponsesAreIdOnly ==
  /\ (res.kind = "POST" /\ res.status = 201) => DOMAIN res.out = {"id"}
  /\ (res.kind = "PUT" /\ res.status = 200) =>
       (DOMAIN res.out = {"id"} /\ res.out["id"] = res.id)

(***************************************************************************)
(* C10.  Lost write under overlap: a write request that is answered with   *)
(* success has written the collection it read; every todo that another     *)
(* request added to the file since that read is gone from the file.  Two   *)
(* overlapping POST /todos can therefore both be answered 201 while the    *)
(* file keeps only one of the two new todos.                               *)
(***************************************************************************)
C10_LastWriterWins ==
  [][\A p \in Procs :
       (req[p].pc \in {"save_write", "update_write", "delete_write"}
          /\ Answered(p)) =>
         /\ res'.status \in {200, 201}
         /\ Ids(file') \cap (Ids(file) \ Ids(req[p].todos)) = {}]_vars

\* two requests were received, both valid POSTs, both are answered (201),
\* and the file has only one of the two new todos
C10_Witness ==
  /\ nreq = 2 /\ nextId = 3 /\ Quiet
  /\ res.kind = "POST" /\ res.status = 201
  /\ Cardinality(Ids(file) \cap {Uuid(1), Uuid(2)}) = 1

(***************************************************************************)
(* C12.  File order is kept: when no request overlaps, the todos of the    *)
(* file are in the order of their creation and GET /todos lists them in    *)
(* the order of the file; the write of a POST puts the new todo last, the  *)
(* write of a PUT leaves every todo at its position, and the write of a    *)
(* DELETE leaves the other todos in the order they had.                    *)
(***************************************************************************)
\* The position of an id in the order uuidv4() returned the ids (the ids of
\* the initial file come first).
CreationRank(id) ==
  IF id = Get(Seed1, "id") THEN -1
  ELSE IF id = Get(Seed2, "id") THEN 0
  ELSE CHOOSE n \in 1..Len(UuidNames) : Uuid(n) = id

InCreationOrder(todos) ==
  \A i, j \in 1..Len(todos) :
    i < j => CreationRank(Get(todos[i], "id")) < CreationRank(Get(todos[j], "id"))

IdsInOrder(todos) == [i \in 1..Len(todos) |-> Get(todos[i], "id")]

C12_FileOrderKept ==
  [][/\ InCreationOrder(file')
     /\ res'.kind = "GET_ALL" => (res'.list = file' /\ InCreationOrder(res'.list))
     /\ \A p \in Procs :
          /\ (req[p].pc = "save_write" /\ Answered(p)) =>
                file' = Append(file, req[p].data)
          /\ (req[p].pc = "update_write" /\ Answered(p)) =>
                IdsInOrder(file') = IdsInOrder(file)
          /\ (req[p].pc = "delete_write" /\ Answered(p)) =>
                IdsInOrder(file') =
                  SelectSeq(IdsInOrder(file), LAMBDA id : id # req[p].id)]_vars

\* GET /todos after a POST to a file of two todos: the new todo is listed last
C12_Witness ==
  /\ res.kind = "GET_ALL" /\ res.status = 200
  /\ prev.kind = "POST"
  /\ Len(res.list) = 3 /\ Get(res.list[3], "id") = prev.id

(***************************************************************************)
(* C13.  Validation precedes any store access: every handler of a POST or  *)
(* PUT that is running (and so every one that reads or writes todos.json)  *)
(* has a body that passed its schema; a request that starts no handler is  *)
(* a POST or PUT whose body fails its schema, it is answered 400 in the    *)
(* step that receives it, whether or not a todo has the id, and the file   *)
(* stays as it was; a request that starts a handler starts it before its   *)
(* first read.                                                             *)
(***************************************************************************)
C13_ValidationBeforeStore ==
  [][/\ \A p \in Procs :
          /\ req'[p].kind = "POST" => JoiError(todoSchema, req'[p].body) = NoError
          /\ req'[p].kind = "PUT" =>
               JoiError(updateTodoSchema, req'[p].body) = NoError
     /\ (nreq' = nreq + 1 /\ req' = req) =>
          /\ res'.kind \in {"POST", "PUT"} /\ res'.status = 400
          /\ JoiError(IF res'.kind = "POST" THEN todoSchema ELSE updateTodoSchema,
                      res'.body) # NoError
          /\ file' = file
     /\ (nreq' = nreq + 1 /\ req' # req) =>
          /\ res' = NoRes /\ file' = file
          /\ \E p \in Procs :
               req'[p].pc \in {"getAll_find", "get_findById", "save_find",
                               "update_findById", "delete_findById"}]_vars

\* a PUT with an empty title to an id no todo of the file has: 400, not 404
C13_Witness ==
  /\ res.kind = "PUT" /\ res.status = 400
  /\ Get(res.body, "title") = JStr("")
  /\ res.id \notin Ids(file) /\ Len(file) >= 1

(***************************************************************************)
(* C14.  Stored titles and descriptions are never empty: every todo of the *)
(* persisted collection, and every todo of an array a request is about to  *)
(* write, has a title and a description that are non-empty strings,        *)
(* whatever bodies the creates and updates carried (a body with an empty   *)
(* or non-string title or description included).                           *)
(***************************************************************************)
TitledAndDescribed(todos) ==
  \A i \in 1..Len(todos) :
    /\ NonEmptyString(Get(todos[i], "title"))
    /\ NonEmptyString(Get(todos[i], "description"))

C14_StoredTextNonEmpty ==
  /\ TitledAndDescribed(file)
  /\ \A p \in Procs :
       req[p].pc \in {"save_write", "update_write", "delete_write"} =>
         TitledAndDescribed(req[p].todos)

\* a PUT that gives a todo of the file an empty description was answered 400
C14_Witness ==
  /\ res.kind = "PUT" /\ res.status = 400
  /\ Get(res.body, "description") = JStr("")
  /\ res.id \in Ids(file)
  /\ prev.kind = "PUT" /\ prev.id = res.id

(***************************************************************************)
(* C15.  Unknown fields on update.                                         *)
(***************************************************************************)
\* The keys of a body other than title, description and completed.
UnknownFields(body) == DOMAIN body \ {"title", "description", "completed"}

\* C15, as claimed: a PUT /todos/{id} on the id of a stored todo whose body
\* has a field other than title, description and completed is accepted
\* (not answered 400), and the stored todo has that field afterwards.
C15_UnknownFieldsAccepted ==
  (res.kind = "PUT" /\ res.id \in Ids(file) /\ UnknownFields(res.body) # {}) =>
    /\ res.status = 200
    /\ \A i \in 1..Len(file) :
         Get(file[i], "id") = res.id =>
           \A k \in UnknownFields(res.body) : Get(file[i], k) = res.body[k]

\* C15, amended: a PUT /todos/{id} whose body has a field other than title,
\* description and completed is answered 400 with an error message in the
\* step that receives it, no handler is started and the file stays as it
\* was; no stored todo ever has a key other than id, title, description and
\* completed.
C15_UnknownFieldsRejected ==
  [][/\ (res' # res /\ res'.kind = "PUT" /\ UnknownFields(res'.body) # {}) =>
          /\ res'.status = 400 /\ "error" \in DOMAIN res'.out
          /\ file' = file /\ req' = req
     /\ \A p \in Procs : req'[p].kind = "PUT" => UnknownFields(req'[p].body) = {}
     /\ \A i \in 1..Len(file') :
          DOMAIN file'[i] \subseteq {"id", "title", "description", "completed"}]_vars

\* a PUT with a priority to the id of a stored todo was answered 400
C15_Witness ==
  /\ res.kind = "PUT" /\ res.status = 400
  /\ "priority" \in DOMAIN res.body
  /\ res.id \in Ids(file)

(***************************************************************************)
(* C16.  Delete removes only its own todo, under any interleaving: the     *)
(* array a DELETE /todos/{id} is about to write is the array of its second *)
(* read without the todo that has the id; no todo with another id is       *)
(* removed, also when the todo was deleted by another request between the  *)
(* first and the second read.                                              *)
(***************************************************************************)
C16_DeleteRemovesOnlyOwn ==
  [][\A p \in Procs :
       (req[p].pc = "delete_find" /\ req'[p].pc = "delete_write") =>
         req'[p].todos = SelectSeq(find, LAMBDA t : Get(t, "id") # req[p].id)]_vars

(***************************************************************************)
(* C17.  Update replaces only its own todo, under any interleaving: the    *)
(* array a PUT /todos/{id} is about to write is as long as the array of    *)
(* its second read and has the same todo at every position whose todo has  *)
(* another id; no todo with another id is overwritten and none is          *)
(* inserted, also when the todo was deleted by another request between the *)
(* first and the second read.                                              *)
(***************************************************************************)
C17_UpdateReplacesOnlyOwn ==
  [][\A p \in Procs :
       (req[p].pc = "update_find" /\ req'[p].pc = "update_write") =>
         /\ Len(req'[p].todos) = Len(find)
         /\ \A i \in 1..Len(find) :
              Get(find[i], "id") # req[p].id => req'[p].todos[i] = find[i]]_vars

(***************************************************************************)
(* C18.  A deleted todo stays deleted: when the last write that was        *)
(* answered with success is a DELETE /todos/{id} (answered 200) and the    *)
(* file has no todo with the id, no step brings a todo with the id back    *)
(* into the file, whatever requests are in flight.                         *)
(***************************************************************************)
C18_DeletedStaysDeleted ==
  [][(prev.kind = "DELETE" /\ prev.id \notin Ids(file)) =>
       prev.id \notin Ids(file')]_vars

(***************************************************************************)
(* C11.  Storage failures are not caught by handlers: a step in which a    *)
(* read or a write of todos.json fails for a request (list, get, create,   *)
(* update or delete), and which the request could not take had the read or *)
(* write succeeded, does not answer the request with 200, 201, 400 or 404. *)
(***************************************************************************)
C11_StorageFailureNotCaught ==
  [][\A p \in Procs :
       (/\ find_rejects(p) \/ writeFile_rejects(p)
        /\ ~Resume(p)
        /\ Answered(p)) =>
         res'.status \notin {200, 201, 400, 404}]_vars

(***************************************************************************)
(* C19.  Every request completes with one response: when every read and    *)
(* write of todos.json finishes at some time, every request that is being  *)
(* served is answered at some time, on every path (a failed read or write  *)
(* included).                                                              *)
(***************************************************************************)
C19_EveryRequestAnswered ==
  \A p \in Procs : InFlight(p) ~> ~InFlight(p)
=============================================================================
